---- MODULE Spec2Model ----
(***************************************************************************)
(* A model of src/main.rs: the event loop of main (the driver), fed by     *)
(* the swarm's event stream, and the Codec whose read_response and         *)
(* write_response move message_size_in_kilobyte chunks of 1024 bytes.      *)
(*                                                                         *)
(* Spec      : the event loop, one action per match arm of main.           *)
(* SpecCodec : one write_response and one read_response on the two ends of *)
(*             one byte stream, with read_request and write_request.       *)
(* FairSpecCodec : SpecCodec with every enabled poll eventually taken.     *)
(***************************************************************************)
EXTENDS Integers, Sequences, FiniteSets, TLC

(***************************************************************************)
(* Bounds of the model.                                                    *)
(***************************************************************************)
\* connections the transport establishes during one run
MaxConns == 2
\* distinct remote peers
MaxPeers == 2
\* inbound requests the transport delivers during one run
MaxInbound == 1
\* largest message_size_in_kilobyte explored by SpecCodec
MaxSize == 2
\* most bytes one poll of the stream moves, unless it moves all it can
MaxSegment == 400

(***************************************************************************)
(* Program constants.                                                      *)
(***************************************************************************)
\* [0u8; 1024] and [1u8; 1024]
ChunkSize == 1024
\* the byte write_response fills its buffer with
WritePattern == 1
\* the byte read_response's buffer is initialised with
ReadInit == 0

Conns == 1..MaxConns
Peers == 1..MaxPeers
NoPeer == 0

VARIABLES
    \* ---- the driver (main) ----
    send_request,   \* args.send_request
    got_response,   \* let mut got_response
    loop,           \* where the while-let loop is: "running", "panicked", "ended"
    output,         \* the lines printed, each with the event that printed it
    \* ---- the swarm, as far as main observes it ----
    conn,           \* conn[c]     : "none", "open" or "closed"
    peerOf,         \* peerOf[c]   : peer_id of connection c
    outbound,       \* outbound[c] : requests sent by send_request, in flight on c
    inbound,        \* inbound[c]  : inbound requests delivered on c
    replies,        \* replies[c]  : send_response calls that returned Ok on c
    sent,           \* sent[c]     : requests send_request has put on c
    responses,      \* responses[c]: Message::Response events delivered on c
    failures,       \* failures[c] : OutboundFailure events delivered on c, the
                    \*               response of a request on c could not be read
    calls,          \* calls[c]    : send_response calls made for requests on c
    writing,        \* writing[c]  : replies on c whose write_response is running
    wfailed,        \* wfailed[c]  : InboundFailure events delivered on c, the
                    \*               write_response of a reply on c failed
    dials,          \* swarm.dial calls made
    solo,           \* solo[p]     : main's got_response and output in the run
                    \*               that receives the events of peer p only
    \* ---- one response transfer through the Codec ----
    size,           \* self.message_size_in_kilobyte
    wire,           \* bytes written and not yet read
    eof,            \* the write half of the stream is closed
    reset,          \* the connection under the stream was torn down
    wstate,         \* write_response: "idle", "loop", "Ok", "Err"
    widx,           \* chunks write_response has written in full
    wfill,          \* bytes of the current chunk write_all has written
    written,        \* every byte accepted by the stream
    rstate,         \* read_response: "idle", "loop", "Ok", "Err"
    ridx,           \* chunks read_response has read in full
    rfill,          \* bytes of the current chunk read_exact has filled
    buffer,         \* read_response's buffer
    received,       \* every byte read_exact copied into the buffer
    wreq,           \* write_request on the stream: "idle", "Ok"
    rreq            \* read_request on the stream: "idle", "Ok"

driverVars == <<send_request, got_response, loop, output>>
replyVars == <<calls, writing, wfailed>>
swarmVars == <<conn, peerOf, outbound, inbound, replies, sent, responses, solo,
               failures, replyVars, dials>>
codecVars == <<size, wire, eof, reset, wstate, widx, wfill, written,
               rstate, ridx, rfill, buffer, received, wreq, rreq>>
vars == <<driverVars, swarmVars, codecVars>>

(***************************************************************************)
(* The two lines main prints.                                              *)
(***************************************************************************)
ResponseObserved == "ResponseObserved"
ClosedBeforeResponse == "ClosedBeforeResponse"

Report(v, c, p) == [verdict |-> v, conn |-> c, peer |-> p]

(***************************************************************************)
(* The match arms of main as functions of main's local state.              *)
(***************************************************************************)
\* SwarmEvent::Behaviour(Message::Response): println!, got_response = true
ResponseArmOutput(out, c, p) == Append(out, Report(ResponseObserved, c, p))

\* the arm without its assignment to got_response
ResponseArmFlagUnset(got) == got

ResponseArmFlag(got) == TRUE

\* the arm without its test of got_response
ClosedArmOutputAnyFlag(got, sender, out, c, p) ==
    IF sender
    THEN Append(out, Report(ClosedBeforeResponse, c, p))
    ELSE out

\* the arm without its test of args.send_request
ClosedArmOutputAnyRole(got, sender, out, c, p) ==
    IF ~got
    THEN Append(out, Report(ClosedBeforeResponse, c, p))
    ELSE out

\* SwarmEvent::ConnectionClosed: if !got_response && args.send_request
ClosedArmOutput(got, sender, out, c, p) ==
    IF ~got /\ sender
    THEN Append(out, Report(ClosedBeforeResponse, c, p))
    ELSE out

\* the arm without its test of args.send_request
EstablishedArmSendsAlways(sender) == TRUE

\* SwarmEvent::ConnectionEstablished: if args.send_request
EstablishedArmSends(sender) == sender

\* send_response is called twice in the Message::Request arm
RequestArmCallsTwice == 1 + 1

\* SwarmEvent::Behaviour(Message::Request): the send_response calls of the arm
RequestArmCalls == 1

\* send_response(channel, ()).unwrap(): Err panics
RequestArmLoop(l, live) == IF live THEN l ELSE "panicked"

\* the ConnectionClosed arm leaves the loop after its verdict
ClosedArmLoopBreak(l) == "ended"

\* SwarmEvent::ConnectionClosed: the arm has no break and no return
ClosedArmLoop(l) == l

\* peer_id is opaque: the peers met so far are numbered in the order they
\* were first met, so the next connection is to one of them or to the next
NextPeers == {p \in Peers : \A q \in 1..(p - 1) : \E c \in Conns : peerOf[c] = q}

\* The inbound requests delivered so far
RECURSIVE InboundUpTo(_)
InboundUpTo(c) == IF c = 0 THEN 0 ELSE InboundUpTo(c - 1) + inbound[c]

InboundTotal == InboundUpTo(MaxConns)

\* The connections send_request may put a request for peer p on
Routes(p, c) == {r \in Conns : r = c \/ (conn[r] = "open" /\ peerOf[r] = p)}

(***************************************************************************)
(* The Codec and its stream while neither read_response nor                *)
(* write_response has been called.                                         *)
(***************************************************************************)
CodecIdle ==
    /\ size = 1
    /\ wire = <<>>
    /\ eof = FALSE
    /\ reset = FALSE
    /\ wstate = "idle"
    /\ widx = 0
    /\ wfill = 0
    /\ written = <<>>
    /\ rstate = "idle"
    /\ ridx = 0
    /\ rfill = 0
    /\ buffer = <<>>
    /\ received = <<>>
    /\ wreq = "idle"
    /\ rreq = "idle"

SwarmIdle ==
    /\ conn = [c \in Conns |-> "none"]
    /\ peerOf = [c \in Conns |-> NoPeer]
    /\ outbound = [c \in Conns |-> 0]
    /\ inbound = [c \in Conns |-> 0]
    /\ replies = [c \in Conns |-> 0]
    /\ sent = [c \in Conns |-> 0]
    /\ responses = [c \in Conns |-> 0]
    /\ failures = [c \in Conns |-> 0]
    /\ calls = [c \in Conns |-> 0]
    /\ writing = [c \in Conns |-> 0]
    /\ wfailed = [c \in Conns |-> 0]
    /\ solo = [p \in Peers |-> [got_response |-> FALSE, output |-> <<>>]]

\* if let Some(dial_address_str) = args.dial_address.as_ref() { swarm.dial(..) }
DialCalls(dial_address) == IF dial_address THEN 1 ELSE 0

\* main up to its loop: Args::parse(), let mut got_response = false
Init ==
    /\ send_request \in BOOLEAN
    /\ got_response = FALSE
    /\ loop = "running"
    /\ output = <<>>
    /\ SwarmIdle
    /\ \E dial_address \in BOOLEAN : dials = DialCalls(dial_address)
    /\ CodecIdle

(***************************************************************************)
(* The event loop: while let Some(event) = swarm.next().await              *)
(***************************************************************************)
\* SwarmEvent::ConnectionEstablished { peer_id, .. }
ConnectionEstablished(c, p) ==
    /\ loop = "running"
    /\ conn[c] = "none"
    /\ IF c = 1 THEN TRUE ELSE conn[c - 1] # "none"
    /\ p \in NextPeers
    /\ conn' = [conn EXCEPT ![c] = "open"]
    /\ peerOf' = [peerOf EXCEPT ![c] = p]
    /\ IF EstablishedArmSends(send_request)
       THEN \E r \in Routes(p, c) :
                /\ outbound' = [outbound EXCEPT ![r] = @ + 1]
                /\ sent' = [sent EXCEPT ![r] = @ + 1]
       ELSE UNCHANGED <<outbound, sent>>
    /\ UNCHANGED <<inbound, replies, responses, solo, failures, replyVars, dials>>
    /\ UNCHANGED driverVars
    /\ UNCHANGED codecVars

\* SwarmEvent::Behaviour(Event::Message { message: Message::Request { channel, .. } })
\* send_response(channel, ()).unwrap(): Err when the channel is no longer live
InboundRequest(c, live) ==
    /\ loop = "running"
    /\ conn[c] = "open"
    /\ InboundTotal < MaxInbound
    /\ inbound' = [inbound EXCEPT ![c] = @ + 1]
    /\ calls' = [calls EXCEPT ![c] = @ + RequestArmCalls]
    /\ IF live
       THEN /\ replies' = [replies EXCEPT ![c] = @ + 1]
            /\ writing' = [writing EXCEPT ![c] = @ + 1]
       ELSE UNCHANGED <<replies, writing>>
    /\ loop' = RequestArmLoop(loop, live)
    /\ UNCHANGED <<conn, peerOf, outbound, sent, responses, solo>>
    /\ UNCHANGED <<failures, wfailed, dials>>
    /\ UNCHANGED <<send_request, got_response, output>>
    /\ UNCHANGED codecVars

\* SwarmEvent::Behaviour(Event::Message { message: Message::Response { .. } })
InboundResponse(c) ==
    /\ loop = "running"
    /\ conn[c] = "open"
    /\ outbound[c] > 0
    /\ outbound' = [outbound EXCEPT ![c] = @ - 1]
    /\ responses' = [responses EXCEPT ![c] = @ + 1]
    /\ output' = ResponseArmOutput(output, c, peerOf[c])
    /\ got_response' = ResponseArmFlag(got_response)
    /\ solo' = [solo EXCEPT ![peerOf[c]] =
                  [got_response |-> ResponseArmFlag(@.got_response),
                   output |-> ResponseArmOutput(@.output, c, peerOf[c])]]
    /\ UNCHANGED <<conn, peerOf, inbound, replies, sent>>
    /\ UNCHANGED <<failures, replyVars, dials>>
    /\ UNCHANGED <<send_request, loop>>
    /\ UNCHANGED codecVars

\* SwarmEvent::ConnectionClosed { .. }
ConnectionClosed(c) ==
    /\ loop = "running"
    /\ conn[c] = "open"
    /\ conn' = [conn EXCEPT ![c] = "closed"]
    /\ outbound' = [outbound EXCEPT ![c] = 0]
    /\ output' = ClosedArmOutput(got_response, send_request, output, c, peerOf[c])
    /\ solo' = [solo EXCEPT ![peerOf[c]].output =
                  ClosedArmOutput(solo[peerOf[c]].got_response, send_request,
                                  @, c, peerOf[c])]
    /\ loop' = ClosedArmLoop(loop)
    /\ UNCHANGED <<peerOf, inbound, replies, sent, responses>>
    /\ UNCHANGED <<failures, replyVars, dials>>
    /\ UNCHANGED <<send_request, got_response>>
    /\ UNCHANGED codecVars

\* _ => {} : here Event::OutboundFailure, the request on c failed
OutboundFailure(c) ==
    /\ loop = "running"
    /\ conn[c] = "open"
    /\ outbound[c] > 0
    /\ outbound' = [outbound EXCEPT ![c] = @ - 1]
    /\ failures' = [failures EXCEPT ![c] = @ + 1]
    /\ UNCHANGED <<conn, peerOf, inbound, replies, sent, responses, solo>>
    /\ UNCHANGED <<replyVars, dials>>
    /\ UNCHANGED driverVars
    /\ UNCHANGED codecVars

\* _ => {} : here Event::InboundFailure, the write_response of a reply on c
\* returned an error or lost its connection
InboundFailure(c) ==
    /\ loop = "running"
    /\ conn[c] # "none"
    /\ writing[c] > 0
    /\ writing' = [writing EXCEPT ![c] = @ - 1]
    /\ wfailed' = [wfailed EXCEPT ![c] = @ + 1]
    /\ UNCHANGED <<conn, peerOf, outbound, inbound, replies, sent, responses, solo>>
    /\ UNCHANGED <<failures, calls, dials>>
    /\ UNCHANGED driverVars
    /\ UNCHANGED codecVars

\* _ => {} : here Event::ResponseSent, the write_response of a reply on c
\* returned Ok
ResponseSent(c) ==
    /\ loop = "running"
    /\ conn[c] = "open"
    /\ writing[c] > 0
    /\ writing' = [writing EXCEPT ![c] = @ - 1]
    /\ UNCHANGED <<conn, peerOf, outbound, inbound, replies, sent, responses, solo>>
    /\ UNCHANGED <<failures, calls, wfailed, dials>>
    /\ UNCHANGED driverVars
    /\ UNCHANGED codecVars

\* swarm.next() yields None: the loop and main end
StreamEnd ==
    /\ loop = "running"
    /\ loop' = "ended"
    /\ UNCHANGED <<send_request, got_response, output>>
    /\ UNCHANGED swarmVars
    /\ UNCHANGED codecVars

Next ==
    \/ \E c \in Conns, p \in Peers : ConnectionEstablished(c, p)
    \/ \E c \in Conns, live \in BOOLEAN : InboundRequest(c, live)
    \/ \E c \in Conns : InboundResponse(c)
    \/ \E c \in Conns : ConnectionClosed(c)
    \/ \E c \in Conns : OutboundFailure(c)
    \/ \E c \in Conns : InboundFailure(c)
    \/ \E c \in Conns : ResponseSent(c)
    \/ StreamEnd

Spec == Init /\ [][Next]_vars

(***************************************************************************)
(* The Codec: read_response and write_response on one byte stream.         *)
(***************************************************************************)
Min(a, b) == IF a <= b THEN a ELSE b

Take(s, k) == SubSeq(s, 1, k)

Drop(s, k) == SubSeq(s, k + 1, Len(s))

\* The byte counts one poll of the stream may move when it can move avail
Amounts(avail) == {Min(MaxSegment, avail), avail}

\* let mut buffer = [0u8; 1024]
Zeroes == [i \in 1..ChunkSize |-> ReadInit]

\* let buffer = [1u8; 1024]
Ones == [i \in 1..ChunkSize |-> WritePattern]

\* the loop of read_response as a loop that tests after its body
ReadLoopDoneAfterBody(idx, n) == idx >= n /\ idx >= 1

\* for _ in 0..self.message_size_in_kilobyte, in read_response
ReadLoopDone(idx, n) == idx >= n

\* the loop of write_response one iteration short
WriteLoopDoneShort(idx, n) == idx + 1 >= n

\* for _ in 0..self.message_size_in_kilobyte, in write_response
WriteLoopDone(idx, n) == idx >= n

\* read_exact called again after an error instead of returning it
AfterReadExactRetry(result, idx) ==
    IF result = "Ok"
    THEN [state |-> "loop", idx |-> idx + 1]
    ELSE [state |-> "loop", idx |-> idx]

\* read_exact's result dropped instead of propagated with ?
AfterReadExactIgnored(result, idx) == [state |-> "loop", idx |-> idx + 1]

\* io.read_exact(&mut buffer).await? : the loop goes on only after Ok
AfterReadExact(result, idx) ==
    IF result = "Ok"
    THEN [state |-> "loop", idx |-> idx + 1]
    ELSE [state |-> "Err", idx |-> idx]

\* write_all's result dropped instead of propagated with ?
AfterWriteAllIgnored(result, idx) == [state |-> "loop", idx |-> idx + 1]

\* io.write_all(&buffer).await? : the loop goes on only after Ok
AfterWriteAll(result, idx) ==
    IF result = "Ok"
    THEN [state |-> "loop", idx |-> idx + 1]
    ELSE [state |-> "Err", idx |-> idx]

\* The calls of read_response and write_response on the two ends of a stream
InitCodec ==
    /\ send_request = TRUE
    /\ got_response = FALSE
    /\ loop = "running"
    /\ output = <<>>
    /\ SwarmIdle
    /\ dials = 0
    /\ size \in 0..MaxSize
    /\ wire = <<>>
    /\ eof = FALSE
    /\ reset = FALSE
    /\ wstate = "loop"
    /\ widx = 0
    /\ wfill = 0
    /\ written = <<>>
    /\ rstate = "loop"
    /\ ridx = 0
    /\ rfill = 0
    /\ buffer = Zeroes
    /\ received = <<>>
    /\ wreq = "idle"
    /\ rreq = "idle"

\* write_response: the for loop is over, Ok(())
WriteResponseReturn ==
    /\ wstate = "loop"
    /\ WriteLoopDone(widx, size)
    /\ wstate' = "Ok"
    /\ UNCHANGED <<size, wire, eof, reset, widx, wfill, written>>
    /\ UNCHANGED <<rstate, ridx, rfill, buffer, received>>
    /\ UNCHANGED <<wreq, rreq>>
    /\ UNCHANGED <<driverVars, swarmVars>>

\* write_all: one poll_write that takes k bytes of the chunk
WriteAllPoll(k) ==
    /\ wstate = "loop"
    /\ ~WriteLoopDone(widx, size)
    /\ ~eof /\ ~reset
    /\ k \in Amounts(ChunkSize - wfill)
    /\ LET bytes == SubSeq(Ones, wfill + 1, wfill + k)
           next == IF wfill + k = ChunkSize
                   THEN AfterWriteAll("Ok", widx)
                   ELSE [state |-> "loop", idx |-> widx]
       IN /\ wire' = wire \o bytes
          /\ written' = written \o bytes
          /\ wfill' = IF wfill + k = ChunkSize THEN 0 ELSE wfill + k
          /\ wstate' = next.state
          /\ widx' = next.idx
    /\ UNCHANGED <<size, eof, reset>>
    /\ UNCHANGED <<rstate, ridx, rfill, buffer, received>>
    /\ UNCHANGED <<wreq, rreq>>
    /\ UNCHANGED <<driverVars, swarmVars>>

\* write_all: poll_write fails, the stream is closed or its connection is gone
WriteAllErr ==
    /\ wstate = "loop"
    /\ ~WriteLoopDone(widx, size)
    /\ eof \/ reset
    /\ LET next == AfterWriteAll("Err", widx)
       IN /\ wstate' = next.state
          /\ widx' = next.idx
    /\ UNCHANGED <<size, wire, eof, reset, wfill, written>>
    /\ UNCHANGED <<rstate, ridx, rfill, buffer, received>>
    /\ UNCHANGED <<wreq, rreq>>
    /\ UNCHANGED <<driverVars, swarmVars>>

\* read_response: the for loop is over, Ok(())
ReadResponseReturn ==
    /\ rstate = "loop"
    /\ ReadLoopDone(ridx, size)
    /\ rstate' = "Ok"
    /\ UNCHANGED <<size, wire, eof, reset, ridx, rfill, buffer, received>>
    /\ UNCHANGED <<wstate, widx, wfill, written>>
    /\ UNCHANGED <<wreq, rreq>>
    /\ UNCHANGED <<driverVars, swarmVars>>

\* read_exact: one poll_read that copies k bytes into the rest of the buffer
ReadExactPoll(k) ==
    /\ rstate = "loop"
    /\ ~ReadLoopDone(ridx, size)
    /\ ~reset
    /\ wire # <<>>
    /\ k \in Amounts(Min(Len(wire), ChunkSize - rfill))
    /\ LET bytes == Take(wire, k)
           next == IF rfill + k = ChunkSize
                   THEN AfterReadExact("Ok", ridx)
                   ELSE [state |-> "loop", idx |-> ridx]
       IN /\ wire' = Drop(wire, k)
          /\ buffer' = [i \in 1..ChunkSize |->
                          IF i > rfill /\ i <= rfill + k
                          THEN bytes[i - rfill]
                          ELSE buffer[i]]
          /\ received' = received \o bytes
          /\ rfill' = IF rfill + k = ChunkSize THEN 0 ELSE rfill + k
          /\ rstate' = next.state
          /\ ridx' = next.idx
    /\ UNCHANGED <<size, eof, reset>>
    /\ UNCHANGED <<wstate, widx, wfill, written>>
    /\ UNCHANGED <<wreq, rreq>>
    /\ UNCHANGED <<driverVars, swarmVars>>

\* read_exact: poll_read fails, or reads 0 bytes at the end of the stream
\* (UnexpectedEof), before the buffer is full
ReadExactErr ==
    /\ rstate = "loop"
    /\ ~ReadLoopDone(ridx, size)
    /\ reset \/ (eof /\ wire = <<>>)
    /\ LET next == AfterReadExact("Err", ridx)
       IN /\ rstate' = next.state
          /\ ridx' = next.idx
    /\ UNCHANGED <<size, wire, eof, reset, rfill, buffer, received>>
    /\ UNCHANGED <<wstate, widx, wfill, written>>
    /\ UNCHANGED <<wreq, rreq>>
    /\ UNCHANGED <<driverVars, swarmVars>>

\* write_request: type Request = (), nothing is written, whatever n is
WriteRequestBody(n) == <<>>

\* the request read as the response is: all the stream holds, up to n chunks
ReadRequestTakeChunks(stream, n) == Min(Len(stream), n * ChunkSize)

\* read_request: the bytes it takes from the stream, whatever n is
ReadRequestTake(stream, n) == 0

\* write_request returns Ok(()) without touching its stream
WriteRequest ==
    /\ wreq = "idle"
    /\ wreq' = "Ok"
    /\ wire' = wire \o WriteRequestBody(size)
    /\ written' = written \o WriteRequestBody(size)
    /\ UNCHANGED <<size, eof, reset, wstate, widx, wfill>>
    /\ UNCHANGED <<rstate, ridx, rfill, buffer, received, rreq>>
    /\ UNCHANGED <<driverVars, swarmVars>>

\* read_request returns Ok(()) without touching its stream
ReadRequest ==
    /\ rreq = "idle"
    /\ rreq' = "Ok"
    /\ wire' = Drop(wire, ReadRequestTake(wire, size))
    /\ received' = received \o Take(wire, ReadRequestTake(wire, size))
    /\ UNCHANGED <<size, eof, reset, rstate, ridx, rfill, buffer>>
    /\ UNCHANGED <<wstate, widx, wfill, written, wreq>>
    /\ UNCHANGED <<driverVars, swarmVars>>

\* The write half of the stream is closed
StreamClose ==
    /\ ~eof
    /\ eof' = TRUE
    /\ UNCHANGED <<size, wire, reset>>
    /\ UNCHANGED <<wstate, widx, wfill, written>>
    /\ UNCHANGED <<rstate, ridx, rfill, buffer, received>>
    /\ UNCHANGED <<wreq, rreq>>
    /\ UNCHANGED <<driverVars, swarmVars>>

\* The connection under the stream is closed: what is in flight is lost
ConnectionReset ==
    /\ ~reset
    /\ reset' = TRUE
    /\ wire' = <<>>
    /\ UNCHANGED <<size, eof>>
    /\ UNCHANGED <<wstate, widx, wfill, written>>
    /\ UNCHANGED <<rstate, ridx, rfill, buffer, received>>
    /\ UNCHANGED <<wreq, rreq>>
    /\ UNCHANGED <<driverVars, swarmVars>>

NextCodec ==
    \/ WriteResponseReturn
    \/ \E k \in 1..ChunkSize : WriteAllPoll(k)
    \/ WriteAllErr
    \/ ReadResponseReturn
    \/ \E k \in 1..ChunkSize : ReadExactPoll(k)
    \/ ReadExactErr
    \/ WriteRequest
    \/ ReadRequest
    \/ StreamClose
    \/ ConnectionReset

SpecCodec == InitCodec /\ [][NextCodec]_vars

\* The runtime polls a future again whenever its stream can make progress
FairSpecCodec ==
    /\ InitCodec
    /\ [][NextCodec]_vars
    /\ WF_vars(WriteResponseReturn)
    /\ WF_vars(\E k \in 1..ChunkSize : WriteAllPoll(k))
    /\ WF_vars(WriteAllErr)
    /\ WF_vars(ReadResponseReturn)
    /\ WF_vars(\E k \in 1..ChunkSize : ReadExactPoll(k))
    /\ WF_vars(ReadExactErr)
    /\ WF_vars(WriteRequest)
    /\ WF_vars(ReadRequest)

(***************************************************************************)
(* Properties of the event loop (Spec).                                    *)
(***************************************************************************)
\* main printed verdict v while it handled an event of connection c
Reported(c, v) ==
    \E i \in DOMAIN output : output[i].conn = c /\ output[i].verdict = v

\* the lines main printed while it handled events of peer p
ReportsOf(p) == SelectSeq(output, LAMBDA r : r.peer = p)

\* the requests in flight to peer p
RECURSIVE PendingUpTo(_, _)
PendingUpTo(p, c) ==
    IF c = 0 THEN 0
    ELSE PendingUpTo(p, c - 1)
         + (IF conn[c] = "open" /\ peerOf[c] = p THEN outbound[c] ELSE 0)

Pending(p) == PendingUpTo(p, MaxConns)

\* a Message::Response of peer p has been handled
ResponseRecorded(p) == \E c \in Conns : peerOf[c] = p /\ responses[c] > 0

\* C1: on the initiator at most one outcome is ever reported per peer: once
\* a verdict is printed for a peer, no later event of that peer prints again.
C1_OneReportPerPeer == \A p \in Peers : Len(ReportsOf(p)) <= 1

\* C2: for no connection have both the response outcome and the closed
\* before response outcome been printed; the first one reached is final.
C2_MutualExclusion ==
    \A c \in Conns :
        ~(Reported(c, ResponseObserved) /\ Reported(c, ClosedBeforeResponse))

C2_Witness ==
    \E c \in Conns :
        /\ Reported(c, ResponseObserved)
        /\ conn[c] = "closed"
        /\ send_request

\* C3: a connection whose response event is delivered before its
\* ConnectionClosed has the response outcome printed, and its
\* ConnectionClosed prints no closed before response outcome.
C3_ResponseFirst ==
    \A c \in Conns :
        responses[c] > 0 =>
            /\ Reported(c, ResponseObserved)
            /\ ~Reported(c, ClosedBeforeResponse)

C3_Witness ==
    \E c \in Conns :
        /\ responses[c] > 0
        /\ sent[c] > 0
        /\ replies[c] = 0
        /\ conn[c] = "closed"

\* C4: whenever the initiator handles ConnectionClosed for a connection it
\* sent a request on, and no response of that peer has been recorded, it
\* prints the closed before response outcome for that connection, whatever
\* happened before in the run.
C4_ClosedFirst ==
    [][\A c \in Conns :
          ( /\ send_request
            /\ conn[c] = "open"
            /\ conn'[c] = "closed"
            /\ sent[c] > 0
            /\ ~ResponseRecorded(peerOf[c]) )
          => Reported(c, ClosedBeforeResponse)']_vars

\* C5: what is printed for a peer is what main prints in the run that
\* receives the events of that peer only.
C5_PeerIndependence ==
    \A p \in Peers : ReportsOf(p) = solo[p].output

\* C6: on the initiator, every connection a request was sent on and for
\* which a response or ConnectionClosed event has been delivered has a
\* verdict printed.
C6_VerdictReported ==
    \A c \in Conns :
        ( /\ send_request
          /\ sent[c] > 0
          /\ (responses[c] > 0 \/ conn[c] = "closed") )
        => (Reported(c, ResponseObserved) \/ Reported(c, ClosedBeforeResponse))

\* C9: at most one request is in flight to any one peer.
C9_OnePendingPerPeer == \A p \in Peers : Pending(p) <= 1

\* C10: a process started without --send-request never records nor prints
\* an outcome.
C10_ReceiverSilent == ~send_request => (output = <<>> /\ ~got_response)

C10_Witness ==
    /\ ~send_request
    /\ \E c \in Conns : conn[c] = "closed" /\ replies[c] > 0

\* the requests send_request has sent
RECURSIVE SentUpTo(_, _)
SentUpTo(f, c) == IF c = 0 THEN 0 ELSE SentUpTo(f, c - 1) + f[c]

\* the closed before response lines in out
ClosedLines(out) ==
    Len(SelectSeq(out, LAMBDA r : r.verdict = ClosedBeforeResponse))

\* C11: a connection whose one request ended in a failure to read the
\* response never gets the response outcome, and once it is closed the
\* outcome printed for it is closed before response.
C11_ReadFailureVerdict ==
    \A c \in Conns :
        (send_request /\ sent[c] = 1 /\ failures[c] = 1) =>
            /\ ~Reported(c, ResponseObserved)
            /\ conn[c] = "closed" => Reported(c, ClosedBeforeResponse)

\* C12: once the write_response of a reply has failed, or send_response
\* could not be issued, the run is in its fatal state and handles no more
\* events.
C12_ReplyFailureFatal ==
    \A c \in Conns :
        (wfailed[c] > 0 \/ calls[c] > replies[c]) => loop = "panicked"

\* a step of the loop in which send_request or swarm.dial is called
Requests == SentUpTo(sent, MaxConns) # SentUpTo(sent', MaxConns) \/ dials' # dials

\* a step that handles ConnectionEstablished
Establishes == \E c \in Conns : conn[c] = "none" /\ conn'[c] = "open"

\* the loop ends because swarm.next() yielded None
EndsWithStream ==
    /\ loop' = "ended"
    /\ UNCHANGED <<send_request, got_response, output, swarmVars>>

\* the loop ends because send_response(..).unwrap() panicked
EndsWithPanic ==
    /\ loop' = "panicked"
    /\ \E c \in Conns : calls'[c] > calls[c] /\ replies'[c] = replies[c]

\* C13 as stated: no request and no dial is issued but the one request of
\* a ConnectionEstablished, and the loop leaves its running state only when
\* the event stream ends.
C13_LoopEndsWithStreamOnly ==
    [][ /\ Requests => Establishes
        /\ dials' = dials
        /\ loop' # loop => EndsWithStream ]_vars

\* C13: no request and no dial is issued but the one request of a
\* ConnectionEstablished, and the loop leaves its running state only when
\* the event stream ends or when send_response fails in the inbound request
\* arm and its unwrap panics.
C13_NoRetryLoopEnds ==
    [][ /\ Requests => Establishes
        /\ dials' = dials
        /\ loop # "running" => loop' = loop
        /\ loop' # loop => (EndsWithStream \/ EndsWithPanic) ]_vars

C13_Witness ==
    /\ loop = "ended"
    /\ send_request
    /\ \E c \in Conns : conn[c] = "closed" /\ failures[c] > 0

\* C16: every inbound request event is answered by exactly one
\* send_response call, made in the step that handles the event.
C16_OneReplyPerRequest ==
    /\ [](\A c \in Conns : calls[c] = inbound[c] /\ replies[c] <= calls[c])
    /\ [][\A c \in Conns :
            /\ inbound'[c] # inbound[c] =>
                   (inbound'[c] = inbound[c] + 1 /\ calls'[c] = calls[c] + 1)
            /\ calls'[c] # calls[c] => inbound'[c] # inbound[c] ]_vars

C16_Witness ==
    \E c \in Conns : inbound[c] > 0 /\ replies[c] > 0 /\ writing[c] = 0

\* C17: a ConnectionEstablished event makes the initiator send exactly one
\* request to the peer of the event, and leaves the requests of a process
\* that is not the initiator unchanged, so such a process never sends one.
C17_RequestIffInitiator ==
    /\ [](~send_request => \A c \in Conns : sent[c] = 0 /\ outbound[c] = 0)
    /\ [][\A c \in Conns : (conn[c] = "none" /\ conn'[c] = "open") =>
            IF send_request
            THEN /\ SentUpTo(sent', MaxConns) = SentUpTo(sent, MaxConns) + 1
                 /\ \E r \in Conns :
                        /\ peerOf'[r] = peerOf'[c]
                        /\ sent'[r] = sent[r] + 1
                        /\ outbound'[r] = outbound[r] + 1
            ELSE UNCHANGED <<sent, outbound>> ]_vars

C17_Witness ==
    /\ ~send_request
    /\ \A c \in Conns : conn[c] # "none"

\* C19: got_response starts unset, is set only by handling a response
\* message, is never unset, and once it is set no ConnectionClosed event of
\* any connection prints closed before response.
C19_FlagMonotone ==
    /\ []((\A c \in Conns : responses[c] = 0) <=> ~got_response)
    /\ [][ /\ got_response => got_response'
           /\ got_response' # got_response =>
                  \E c \in Conns : responses'[c] = responses[c] + 1
           /\ got_response => ClosedLines(output') = ClosedLines(output) ]_vars

C19_Witness ==
    /\ got_response
    /\ \E c \in Conns :
          /\ conn[c] = "closed"
          /\ sent[c] > 0
          /\ responses[c] = 0
          /\ ~Reported(c, ClosedBeforeResponse)

(***************************************************************************)
(* Properties of the Codec (SpecCodec, FairSpecCodec).                     *)
(***************************************************************************)
\* C7: read_response with size n >= 1 returns Ok only after n chunks of
\* 1024 bytes have been read in full; when the stream ends or fails with
\* fewer delivered, it returns an error.
C7_NoTruncatedSuccess ==
    size >= 1 =>
        /\ rstate = "Ok" => (ridx = size /\ Len(received) = size * ChunkSize)
        /\ rstate = "Err" => Len(received) < size * ChunkSize
        /\ ( /\ rstate # "loop"
             /\ reset \/ (eof /\ wire = <<>>)
             /\ Len(received) < size * ChunkSize ) => rstate = "Err"

C7_Witness ==
    /\ size >= 1
    /\ rstate = "Err"
    /\ eof /\ ~reset
    /\ Len(received) > 0

\* what a successful write_response leaves for read_response
RoundTripSafe ==
    (size >= 1 /\ ~reset /\ wstate = "Ok") =>
        /\ Len(written) = size * ChunkSize
        /\ \A i \in 1..Len(written) : written[i] = WritePattern
        /\ rstate # "Err"
        /\ rstate = "Ok" => (received = written /\ wire = <<>>)

\* the stream lost something: its connection went, or it was closed under
\* the writer
Lossy == reset \/ wstate = "Err"

\* C8: on a stream that loses nothing, write_response of n >= 1 chunks and
\* read_response of n chunks both return Ok, and the reader has then read
\* exactly the n * 1024 bytes the writer wrote, in order, with nothing left
\* on the stream.
C8_RoundTrip ==
    /\ []RoundTripSafe
    /\ <>(Lossy \/ (wstate = "Ok" /\ rstate = "Ok"))

C8_Witness ==
    /\ size >= 2
    /\ ~reset
    /\ wstate = "Ok"
    /\ rstate = "Ok"

\* C14: write_response writes its chunks in order and returns Ok only
\* after all n chunks; once a write has failed it returns the error and
\* writes nothing more.
C14_WriteAllOrNothing ==
    /\ [] /\ Len(written) = widx * ChunkSize + wfill
          /\ wstate = "Ok" => (widx = size /\ Len(written) = size * ChunkSize)
          /\ wstate = "Err" => Len(written) < size * ChunkSize
    /\ [][ /\ wstate = "Err" => (wstate' = "Err" /\ written' = written)
           /\ (wstate = "loop" /\ widx < size /\ (eof \/ reset))
                  => written' = written
           /\ Len(written') >= Len(written)
           /\ SubSeq(written', 1, Len(written)) = written ]_vars

C14_Witness ==
    /\ wstate = "Err"
    /\ wfill > 0
    /\ widx >= 1
    /\ widx < size

\* C15: write_request writes no byte and read_request takes no byte, and
\* both return Ok, whatever the size and whatever the stream holds.
C15_EmptyRequest ==
    /\ [](wreq \in {"idle", "Ok"} /\ rreq \in {"idle", "Ok"})
    /\ [][ /\ wreq' # wreq =>
                 (wreq' = "Ok" /\ wire' = wire /\ written' = written)
           /\ rreq' # rreq =>
                 (rreq' = "Ok" /\ wire' = wire /\ received' = received) ]_vars
    /\ <>(wreq = "Ok" /\ rreq = "Ok")

C15_Witness ==
    /\ wreq = "Ok"
    /\ rreq = "Ok"
    /\ size = MaxSize
    /\ Len(wire) > ChunkSize
    /\ received = <<>>

\* C18: a read_response waiting on a stream whose connection is closed
\* ends with an error, and every read_response ends, with Ok or an error.
C18_ReadTerminates ==
    /\ (reset /\ rstate = "loop" /\ ridx < size) ~> rstate = "Err"
    /\ <>(rstate \in {"Ok", "Err"})

C18_Witness ==
    /\ reset
    /\ rstate = "Err"
    /\ rfill > 0
    /\ wstate = "Err"

\* C20: with size 0 read_response returns Ok without reading a byte, also
\* on a closed stream, and write_response returns Ok without writing one.
C20_ZeroSize ==
    size = 0 =>
        /\ [] /\ rstate \in {"loop", "Ok"}
              /\ wstate \in {"loop", "Ok"}
              /\ received = <<>>
              /\ written = <<>>
        /\ <>(rstate = "Ok" /\ wstate = "Ok")

C20_Witness ==
    /\ size = 0
    /\ rstate = "Ok"
    /\ wstate = "Ok"
    /\ eof /\ reset
    /\ received = <<>>

====
